---- MODULE Spec2Model ----
(***************************************************************************)
(* Meridian Bank UI: the session store (js/auth.js), the request gateway   *)
(* (js/api.js, both revisions kept in the repository) and the page         *)
(* scripts that drive them (js/login.js, js/dashboard.js, js/signup.js).   *)
(*                                                                         *)
(* One browser tab is modelled: its sessionStorage, the document that is   *)
(* loaded, and the timers and fetches that belong to that document.  Every  *)
(* event handler runs to completion in one step, as JavaScript handlers    *)
(* do; a step that awaits a fetch is split at the await into a send step   *)
(* and a response step.                                                    *)
(*                                                                         *)
(* Time is kept relative to the clock: a timer holds the time left until   *)
(* it is due and a token holds its exp claim as the time left until that   *)
(* instant (negative once it has passed); a tick of the clock lowers both. *)
(***************************************************************************)
EXTENDS Integers, Sequences, FiniteSets, Bags, TLC

\* ---------------------------------------------------------------- bounds
MaxTimerId == 2
MaxInFlight == 1

\* ------------------------------------------------------- program constants
\* config.sessionTimeout (30 minutes) and the dashboard's logout delay
\* (2000 ms), in clock units that keep their order: delay < timeout.
sessionTimeout == 2
logoutDelay == 1

\* ------------------------------------------------------------ value model
\* An optional value (null / undefined / a removed storage key) is the empty
\* tuple; a present value v is <<v>>.
None == <<>>
Some(v) == <<v>>
IsSome(o) == o # <<>>
Get(o) == o[1]

\* A text is a sequence of words; String.prototype.includes is the test for
\* a contiguous run of words.
Includes(msg, pat) ==
    \E i \in 0..(Len(msg) - Len(pat)) :
        \A j \in 1..Len(pat) : msg[i + j] = pat[j]

\* Strings that btoa() rejects: they hold a code point above U+00FF.
NonLatin1 == {"U+674E"}
Latin1(s) == s \notin NonLatin1

Pages == {"index.html", "dashboard.html", "signup.html"}

\* config.apiBaseUrl when window.ENV_API_BASE_URL is not set.
DefaultBaseUrl == <<"http:", "/", "/", "localhost:8080">>

SessionExpiredMsg == <<"Session", "expired.", "Please", "login", "again.">>
UnableToConnectMsg == <<"Unable", "to", "connect", "to", "server.", "Please",
                       "check", "your", "connection", "and", "try", "again.">>
FailedToFetch == <<"Failed", "to", "fetch">>
UserDataNotFoundMsg == <<"User", "data", "not", "found.", "Please", "login", "again.">>
DashboardFailedMsg == <<"Failed", "to", "load", "dashboard.", "Please", "try", "again.">>
LoginFailedMsg == <<"Login", "failed.", "Please", "try", "again.">>
IncorrectMsg == <<"Username", "or", "password", "is", "incorrect">>
EnterUsernameMsg == <<"Please", "enter", "your", "username">>
EnterPasswordMsg == <<"Please", "enter", "your", "password">>
InvalidCharacterMsg == <<"InvalidCharacterError:", "characters", "outside", "of", "the", "Latin1", "range">>
SyntaxErrorMsg == <<"SyntaxError:", "Unexpected", "token">>
NotValidJson == <<"is", "not", "valid", "JSON">>
RequestFailedMsg(status) == <<"Request", "failed", "with", "status", ToString(status)>>

\* ------------------------------------------------------------ sessionStorage
\* The three keys of config.js: tokenKey, userKey, credentialsKey.
EmptyStorage == [token |-> None, user |-> None, creds |-> None]

VARIABLES
    apiBuild,        \* which revision of API.request the pages load
    apiBaseUrl,      \* config.apiBaseUrl
    sessionStorage,  \* the tab's sessionStorage: token, user, creds
    page,            \* the document that is loaded
    handlers,        \* TRUE when the document's form/button handlers are installed
    location,        \* a navigation asked for by window.location.href = ..., not yet done
    timers,          \* the document's armed timers: [id, kind, left]
    timeoutId,       \* Auth._timeoutId (0: never set)
    nextTimerId,     \* the id the next setTimeout returns
    inflight,        \* fetches of this document that have not settled yet
    ui,              \* the error banner and the loading flag
    last             \* what the last handler did: its effects in order, and the
                     \* outcome API.request gave its caller

vars == <<apiBuild, apiBaseUrl, sessionStorage, page, handlers, location, timers,
          timeoutId, nextTimerId, inflight, ui, last>>

\* --------------------------------------------------------------- the context
\* A handler threads a context through the functions it calls.
Ctx == [storage |-> sessionStorage, location |-> location, timers |-> timers,
        timeoutId |-> timeoutId, nextTimerId |-> nextTimerId,
        inflight |-> inflight, ui |-> ui, handlers |-> handlers,
        effects |-> <<>>]

\* The context of a document that has just been loaded: the timers, fetches
\* and script state of the previous document are gone, sessionStorage stays.
FreshCtx == [storage |-> sessionStorage, location |-> None, timers |-> {},
             timeoutId |-> 0, nextTimerId |-> 1,
             inflight |-> EmptyBag, ui |-> [error |-> None, loading |-> FALSE],
             handlers |-> FALSE, effects |-> <<>>]

Effect(c, e) == [c EXCEPT !.effects = Append(@, e)]

\* ---------------------------------------------------------------- js/auth.js
JSONObject(fields, vals) == [k \in fields |-> vals[k]]
\* Reading a property an object does not have gives undefined, which a
\* template literal prints as the text "undefined".
Prop(obj, k) == IF k \in DOMAIN obj THEN obj[k] ELSE "undefined"

btoa(parts) ==
    IF \A i \in 1..Len(parts) : Latin1(parts[i])
    THEN [ok |-> TRUE, val |-> parts]
    ELSE [ok |-> FALSE, val |-> <<>>]

\* The token is its payload: sub, and exp = Date.now() + sessionTimeout.
generateMockJWT(username) ==
    LET payload == btoa(<<username>>)
    IN  IF payload.ok
        THEN [ok |-> TRUE, val |-> [sub |-> username, exp |-> sessionTimeout]]
        ELSE [ok |-> FALSE, val |-> [sub |-> username, exp |-> 0]]

getCredentials(S) == S.creds
getUserData(S) == S.user
getToken(S) == S.token

isAuthenticated(S) == IsSome(getToken(S)) /\ IsSome(getCredentials(S))

\* window.setTimeout: arms a timer and returns its id.
setTimeout(c, kind, delay) ==
    [c EXCEPT !.timers = @ \cup {[id |-> c.nextTimerId, kind |-> kind, left |-> delay]},
              !.nextTimerId = @ + 1]

\* window.clearTimeout: cancels the timer if it is still armed.
clearTimeout(c, id) ==
    IF \E t \in c.timers : t.id = id
    THEN Effect([c EXCEPT !.timers = {t \in @ : t.id # id}], "cancel")
    ELSE c

removeItem(S, key) == [S EXCEPT ![key] = None]

\* Auth.logout as documented before credentials were stored: the credentials
\* key is left behind.
Auth_logout_keepsCredentials(c) ==
    LET c1 == [c EXCEPT !.storage = removeItem(removeItem(@, "token"), "user")]
        c2 == Effect(c1, "destroy")
        c3 == [c2 EXCEPT !.location = Some("index.html")]
    IN  Effect(c3, "navigate:index.html")

\* Auth.logout without the navigation to the entry page.
Auth_logout_noNavigate(c) ==
    LET c1 == [c EXCEPT !.storage =
                   removeItem(removeItem(removeItem(@, "token"), "user"), "creds")]
    IN  Effect(c1, "destroy")

Auth_logout(c) ==
    LET c1 == [c EXCEPT !.storage =
                   removeItem(removeItem(removeItem(@, "token"), "user"), "creds")]
        c2 == Effect(c1, "destroy")
        c3 == [c2 EXCEPT !.location = Some("index.html")]
    IN  Effect(c3, "navigate:index.html")

\* Auth.setSessionTimeout without the clearTimeout of the previous timer.
Auth_setSessionTimeout_noClear(c) ==
    LET c2 == setTimeout(c, "expiry", sessionTimeout)
    IN  [c2 EXCEPT !.timeoutId = c.nextTimerId]

\* Auth.setSessionTimeout keeping a timer that is already set.
Auth_setSessionTimeout_armOnce(c) ==
    IF c.timeoutId # 0
    THEN c
    ELSE [setTimeout(c, "expiry", sessionTimeout) EXCEPT !.timeoutId = c.nextTimerId]

Auth_setSessionTimeout(c) ==
    LET c1 == IF c.timeoutId # 0 THEN clearTimeout(c, c.timeoutId) ELSE c
        c2 == setTimeout(c1, "expiry", sessionTimeout)
    IN  [c2 EXCEPT !.timeoutId = c1.nextTimerId]

\* Auth.login as README lines 216-220 describe it: the password is kept in
\* the stored credentials.
Auth_login_storesPassword(c, username, password, userData) ==
    LET credentials == JSONObject({"username", "password"},
                                  [username |-> username, password |-> password])
        c1 == [c EXCEPT !.storage.creds = Some(credentials)]
        jwt == generateMockJWT(username)
        c2 == [c1 EXCEPT !.storage.token = Some(jwt.val)]
        c3 == IF IsSome(userData) THEN [c2 EXCEPT !.storage.user = userData] ELSE c2
    IN  IF jwt.ok
        THEN [threw |-> FALSE, ctx |-> Effect(Auth_setSessionTimeout(c3), "create")]
        ELSE [threw |-> TRUE, ctx |-> c1]

\* Auth.login(username, password, userData).  The result says whether the
\* call threw (generateMockJWT's btoa) and carries the context at that point.
Auth_login(c, username, password, userData) ==
    LET credentials == JSONObject({"username"}, [username |-> username])
        c1 == [c EXCEPT !.storage.creds = Some(credentials)]
        jwt == generateMockJWT(username)
        c2 == [c1 EXCEPT !.storage.token = Some(jwt.val)]
        c3 == IF IsSome(userData) THEN [c2 EXCEPT !.storage.user = userData] ELSE c2
    IN  IF jwt.ok
        THEN [threw |-> FALSE, ctx |-> Effect(Auth_setSessionTimeout(c3), "create")]
        ELSE [threw |-> TRUE, ctx |-> c1]

\* Auth.requireAuth with the test inverted.
Auth_requireAuth_inverted(c) ==
    IF isAuthenticated(c.storage)
    THEN Effect([c EXCEPT !.location = Some("index.html")], "guard:Redirect")
    ELSE Effect(c, "guard:Allow")

Auth_requireAuth(c) ==
    IF ~isAuthenticated(c.storage)
    THEN Effect([c EXCEPT !.location = Some("index.html")], "guard:Redirect")
    ELSE Effect(c, "guard:Allow")

\* A header value is a scheme with the text it encodes (Basic) or the token
\* it carries (Bearer); '' is the empty scheme.
EmptyHeader == [scheme |-> "", arg |-> <<>>, token |-> None]

\* Auth.getAuthHeader taking the username from the token's payload.
Auth_getAuthHeader_fromToken(S) ==
    IF IsSome(getToken(S))
    THEN [ok |-> TRUE, val |-> [scheme |-> "Basic",
                                arg |-> <<Get(getToken(S)).sub, ":", "undefined">>,
                                token |-> None]]
    ELSE [ok |-> TRUE, val |-> EmptyHeader]

\* Auth.getAuthHeader taking the username from the cached profile.
Auth_getAuthHeader_fromProfile(S) ==
    IF IsSome(getCredentials(S))
    THEN LET name == IF IsSome(getUserData(S)) THEN Get(getUserData(S)).username
                     ELSE "undefined"
         IN  [ok |-> TRUE, val |-> [scheme |-> "Basic",
                                    arg |-> <<name, ":", "undefined">>, token |-> None]]
    ELSE [ok |-> TRUE, val |-> EmptyHeader]

Auth_getAuthHeader(S) ==
    IF IsSome(getCredentials(S))
    THEN LET credentials == Get(getCredentials(S))
             encoded == btoa(<<Prop(credentials, "username"), ":", Prop(credentials, "password")>>)
         IN  IF encoded.ok
             THEN [ok |-> TRUE, val |-> [scheme |-> "Basic", arg |-> encoded.val, token |-> None]]
             ELSE [ok |-> FALSE, val |-> EmptyHeader]
    ELSE IF IsSome(getToken(S))
         THEN [ok |-> TRUE, val |-> [scheme |-> "Bearer", arg |-> <<>>, token |-> getToken(S)]]
         ELSE [ok |-> TRUE, val |-> EmptyHeader]

\* ----------------------------------------------------------------- js/api.js
\* The headers object of a request, by property name: 'Content-Type',
\* 'Authorization', the entries a spread string leaves behind (one per
\* character index: "0", "1", ...), and the spellings 'content-type' and
\* 'authorization' a caller may use.
NoHeaders == [ContentType |-> None, Authorization |-> None, Indexed |-> None,
              contenttype |-> None, authorization |-> None]

\* { ...a, ...b }
Spread(a, b) == [k \in DOMAIN a |-> IF IsSome(b[k]) THEN b[k] ELSE a[k]]

\* { ...str }: the characters of a string under their indices; '' gives {}.
SpreadString(h) ==
    IF h = EmptyHeader THEN NoHeaders ELSE [NoHeaders EXCEPT !.Indexed = Some(h)]

\* `${config.apiBaseUrl}${endpoint}`: a text is joined to a text as it is.
urlOf(endpoint) == apiBaseUrl \o endpoint

\* The values present among a and b, in the order of the properties.
Values(a, b) == a \o b

\* The header list fetch fills from a headers object: each property is
\* appended under its name, and names differing only in case are one header
\* with all the values appended to it.
wireOf(h) == [contentType |-> Values(h.ContentType, h.contenttype),
              authorization |-> Values(h.Authorization, h.authorization)]

\* window.fetch: the request is on the wire until ApiResponse/LoginResponse.
\* body is what the request body carries; closure is what the awaiting
\* handler keeps in its local variables (the form's username and password).
fetch(c, via, caller, url, headers, body, closure) ==
    Effect([c EXCEPT !.inflight = @ (+) SetToBag({[via |-> via, caller |-> caller,
                                                   url |-> url,
                                                   headers |-> headers,
                                                   wire |-> wireOf(headers),
                                                   body |-> body,
                                                   closure |-> closure,
                                                   authAtSend |-> isAuthenticated(c.storage)]})],
           "fetch")

\* API.request up to its await: the headers are built and the fetch is
\* issued, or Auth.getAuthHeader throws and nothing is sent.
\* part_000 lines 13-28 ("guarded") and lines 166-187 ("legacy").
API_request_send(c, caller, endpoint, optionsHeaders, closure) ==
    LET h == Auth_getAuthHeader(c.storage)
    IN  IF apiBuild = "guarded"
        THEN IF h.ok
             THEN [threw |-> FALSE, msg |-> <<>>,
                   ctx |-> fetch(c, "API.request", caller, urlOf(endpoint),
                                 Spread(SpreadString(h.val), optionsHeaders),
                                 <<>>, closure)]
             ELSE [threw |-> TRUE, msg |-> InvalidCharacterMsg, ctx |-> c]
        ELSE LET defaultHeaders == [NoHeaders EXCEPT !.ContentType = Some("application/json")]
             IN  IF isAuthenticated(c.storage)
                 THEN IF h.ok
                      THEN [threw |-> FALSE, msg |-> <<>>,
                            ctx |-> fetch(c, "API.request", caller, urlOf(endpoint),
                                          Spread([defaultHeaders EXCEPT !.Authorization = Some(h.val)],
                                                 optionsHeaders),
                                          <<>>, closure)]
                      ELSE [threw |-> TRUE, msg |-> InvalidCharacterMsg, ctx |-> c]
                 ELSE [threw |-> FALSE, msg |-> <<>>,
                       ctx |-> fetch(c, "API.request", caller, urlOf(endpoint),
                                     Spread(defaultHeaders, optionsHeaders),
                                     <<>>, closure)]

responseOk(status) == status >= 200 /\ status <= 299

\* a || b || c over texts: the first one that is present and not empty.
OrElse(a, b) == IF IsSome(a) /\ Get(a) # <<>> THEN a ELSE b

\* The error message of a non-success response (part_000 lines 39-45, 198-204).
errorMessageOf(resp) ==
    IF resp.body.json
    THEN Get(OrElse(resp.body.message,
                    OrElse(resp.body.error, Some(RequestFailedMsg(resp.status)))))
    ELSE RequestFailedMsg(resp.status)

\* What a call gives its caller: a returned payload, or a thrown Error with
\* its message; class names the throw statement the Error comes from.
Throw(class, msg) == [tag |-> "throw", class |-> class, msg |-> msg]
Return == [tag |-> "return", class |-> "Success", msg |-> <<>>]

\* The outer catch of API.request (part_000 lines 53-59, 212-218).
API_request_catch(error) ==
    IF Includes(error.msg, FailedToFetch)
    THEN Throw("NetworkError", UnableToConnectMsg)
    ELSE error

\* The 401 test written for 403.
treatsAsExpiry_403(S, resp) ==
    /\ resp.status = 403
    /\ (apiBuild = "guarded" => isAuthenticated(S))

\* Every non-success response taken for the end of the session.
treatsAsExpiry_anyError(S, resp) == TRUE

\* Whether a 401 is taken for the end of the session: the guarded revision
\* asks Auth.isAuthenticated(), the legacy revision does not.
treatsAsExpiry(S, resp) ==
    /\ resp.status = 401
    /\ (apiBuild = "guarded" => isAuthenticated(S))

\* API.request after its await: from the settled fetch to what the caller
\* gets.  part_000 lines 28-59 and 187-218.
API_request_settle(c, resp) ==
    IF resp.kind = "reject"
    THEN [ctx |-> c, outcome |-> API_request_catch(Throw("TypeError", resp.msg))]
    ELSE IF ~responseOk(resp.status)
         THEN IF treatsAsExpiry(c.storage, resp)
              THEN [ctx |-> Auth_logout(c),
                    outcome |-> API_request_catch(Throw("AuthExpired", SessionExpiredMsg))]
              ELSE [ctx |-> c,
                    outcome |-> API_request_catch(Throw("HttpError", errorMessageOf(resp)))]
         ELSE IF resp.body.json
              THEN [ctx |-> c, outcome |-> Return]
              ELSE [ctx |-> c,
                    outcome |-> API_request_catch(Throw("SyntaxError", resp.body.parseMsg))]

\* The endpoints of API.users.getById and API.accounts.getByUserId.
userEndpoint(userId) == <<"/", "users", "/", ToString(userId)>>
accountsEndpoint(userId) == <<"/", "users", "/", ToString(userId), "/", "accounts">>

\* ------------------------------------------------------------- js/dashboard.js
dashboard_showError(c, message) ==
    Effect([c EXCEPT !.ui = [error |-> Some(message), loading |-> FALSE]], "showError")

dashboard_hideError(c) == Effect([c EXCEPT !.ui.error = None], "hideError")

\* The catch block of loadDashboard (lines 131-141).
loadDashboard_catch(c, msg) ==
    LET c1 == dashboard_showError(c, IF msg # <<>> THEN msg ELSE DashboardFailedMsg)
    IN  IF Includes(msg, <<"login">>)
        THEN Effect(setTimeout(c1, "delayedLogout", logoutDelay), "setTimeout:logout")
        ELSE c1

\* loadDashboard up to its await (lines 107-123).
loadDashboard(c) ==
    LET c1 == dashboard_hideError(Effect(c, "loadDashboard"))
        c2 == Effect([c1 EXCEPT !.ui.loading = TRUE], "showLoading")
        userData == getUserData(c2.storage)
    IN  IF ~IsSome(userData) \/ Get(userData).id = 0
        THEN loadDashboard_catch(c2, UserDataNotFoundMsg)
        ELSE LET sent == API_request_send(Effect(c2, "displayUserInfo"), "dashboard",
                                          accountsEndpoint(Get(userData).id), NoHeaders, <<>>)
             IN  IF sent.threw THEN loadDashboard_catch(sent.ctx, sent.msg) ELSE sent.ctx

\* loadDashboard after its await (lines 125-141).
loadDashboard_resume(c, outcome) ==
    IF outcome.tag = "return"
    THEN Effect([c EXCEPT !.ui.loading = FALSE], "displayAccounts")
    ELSE loadDashboard_catch(c, outcome.msg)

\* The DOMContentLoaded handler of dashboard.html (lines 6-155).
dashboard_DOMContentLoaded(c) ==
    LET c1 == Auth_requireAuth(c)
        c2 == [c1 EXCEPT !.handlers = TRUE]
    IN  loadDashboard(c2)

\* ----------------------------------------------------------------- js/login.js
\* The handler without the return after the redirect.
login_DOMContentLoaded_noReturn(c) ==
    IF isAuthenticated(c.storage)
    THEN Effect([c EXCEPT !.location = Some("dashboard.html"), !.handlers = TRUE],
                "navigate:dashboard.html")
    ELSE [c EXCEPT !.handlers = TRUE]

\* The DOMContentLoaded handler of index.html (lines 5-19, 82, 144-146).
login_DOMContentLoaded(c) ==
    IF isAuthenticated(c.storage)
    THEN Effect([c EXCEPT !.location = Some("dashboard.html")], "navigate:dashboard.html")
    ELSE [c EXCEPT !.handlers = TRUE]

\* ---------------------------------------------------------------- js/signup.js
\* The DOMContentLoaded handler of signup.html (lines 16-33, 107).
signup_DOMContentLoaded(c) ==
    IF isAuthenticated(c.storage)
    THEN Effect([c EXCEPT !.location = Some("dashboard.html")], "navigate:dashboard.html")
    ELSE [c EXCEPT !.handlers = TRUE]

DOMContentLoaded(p, c) ==
    CASE p = "index.html" -> login_DOMContentLoaded(c)
      [] p = "dashboard.html" -> dashboard_DOMContentLoaded(c)
      [] p = "signup.html" -> signup_DOMContentLoaded(c)

\* The submit handler of the login form up to its await (lines 82-105),
\* with validateForm (lines 56-77).
passwordPolicy(password) == password \in {"Passw0rd!"}

login_showError(c, message) == Effect([c EXCEPT !.ui.error = Some(message)], "showError")
login_hideError(c) == Effect([c EXCEPT !.ui.error = None], "hideError")
login_showLoading(c) == Effect([c EXCEPT !.ui.loading = TRUE], "showLoading")
login_hideLoading(c) == Effect([c EXCEPT !.ui.loading = FALSE], "hideLoading")

login_submit(c, username, password) ==
    LET c1 == login_hideError(c)
    IN  IF username = "" THEN login_showError(c1, EnterUsernameMsg)
        ELSE IF password = "" THEN login_showError(c1, EnterPasswordMsg)
        ELSE IF ~passwordPolicy(password) THEN login_showError(c1, IncorrectMsg)
        ELSE fetch(login_showLoading(c1), "login", "login", urlOf(<<"/", "auth">>),
                   [NoHeaders EXCEPT !.ContentType = Some("application/json")],
                   <<username, password>>, <<username, password>>)

\* The parsed body itself, where the code uses it as the token.
ResponseObject == "responseData"

\* responseData.token || responseData.accessToken || responseData (login.js
\* line 117): the token field of an object (accessToken is read the same
\* way), else the object itself; a string has no such fields and is itself
\* the value.
tokenOf(body) ==
    IF IsSome(body.prim) THEN Get(body.prim)
    ELSE IF IsSome(body.token) /\ Get(body.token) # "" THEN Get(body.token)
    ELSE ResponseObject

\* The submit handler after its await (lines 107-140).  The body of a
\* success response is unparseable, or tokenOf gives the token: '' is falsy.
\* Auth.login(token, user) binds the token to the parameter username and the
\* user object to the parameter password; userData is undefined.
login_resume(c, resp) ==
    IF resp.kind = "reject"
    THEN login_hideLoading(login_showError(c, LoginFailedMsg))
    ELSE IF ~responseOk(resp.status)
    THEN login_hideLoading(login_showError(c, IncorrectMsg))
    ELSE IF ~resp.body.json \/ tokenOf(resp.body) = ""
    THEN login_hideLoading(login_showError(c, LoginFailedMsg))
    ELSE LET r == Auth_login(c, tokenOf(resp.body), "[object Object]", None)
         IN  IF r.threw
             THEN login_hideLoading(login_showError(r.ctx, LoginFailedMsg))
             ELSE Effect([r.ctx EXCEPT !.location = Some("dashboard.html")],
                         "navigate:dashboard.html")

\* ------------------------------------------- login.js, the Basic Auth revision
InvalidUserMsg == <<"Invalid", "username", "or", "password">>
PasswordTooShortMsg == <<"Password", "must", "be", "at", "least", "8", "characters">>

\* password.length >= 8
atLeast8(password) == password \notin {"", "short"}

\* The endpoint API.users.findByUsername asks: the guarded revision filters
\* on the server (part_000 line 103), the legacy revision fetches all users
\* (part_000 lines 239, 260).
findByUsernameEndpoint(username) ==
    IF apiBuild = "guarded"
    THEN <<"/", "users", "?username=", username>>
    ELSE <<"/", "users">>

\* What API.users.findByUsername returns from the payload: the first user of
\* the answer, or (legacy) the user of the list with that username; or null.
findByUsername(resp, username) ==
    IF apiBuild = "guarded"
    THEN resp.body.user
    ELSE IF IsSome(resp.body.user) /\ Get(resp.body.user).username = username
         THEN resp.body.user
         ELSE None

\* The submit handler up to its await (part_001 lines 55-100).
login_basic_submit(c, username, password) ==
    LET c1 == login_hideError(c)
    IN  IF username = "" THEN login_showError(c1, EnterUsernameMsg)
        ELSE IF password = "" THEN login_showError(c1, EnterPasswordMsg)
        ELSE IF ~atLeast8(password) THEN login_showError(c1, PasswordTooShortMsg)
        ELSE LET sent == API_request_send(login_showLoading(c1), "login",
                                          findByUsernameEndpoint(username), NoHeaders,
                                          <<username, password>>)
             IN  IF sent.threw
                 THEN login_hideLoading(login_showError(sent.ctx, sent.msg))
                 ELSE sent.ctx

\* The submit handler after its await (part_001 lines 100-119).
login_basic_resume(c, outcome, resp, closure) ==
    IF outcome.tag = "throw"
    THEN login_hideLoading(login_showError(c, IF outcome.msg # <<>> THEN outcome.msg
                                                ELSE LoginFailedMsg))
    ELSE LET user == findByUsername(resp, closure[1])
         IN  IF ~IsSome(user)
             THEN login_hideLoading(login_showError(c, InvalidUserMsg))
             ELSE LET r == Auth_login(c, closure[1], closure[2], user)
                  IN  IF r.threw
                      THEN login_hideLoading(login_showError(r.ctx, InvalidCharacterMsg))
                      ELSE Effect([r.ctx EXCEPT !.location = Some("dashboard.html")],
                                  "navigate:dashboard.html")

\* ---------------------------------------------------------------- js/signup.js
\* validateForm of the signup page (lines 69-102): the message of the first
\* field that fails, or nothing.
signup_validateForm(f) ==
    IF f.firstName = "" THEN Some(<<"Please", "enter", "your", "first", "name">>)
    ELSE IF f.lastName = "" THEN Some(<<"Please", "enter", "your", "last", "name">>)
    ELSE IF f.username = "" THEN Some(<<"Please", "enter", "a", "username">>)
    ELSE IF f.password = "" THEN Some(<<"Please", "enter", "a", "password">>)
    ELSE IF ~passwordPolicy(f.password) THEN Some(<<"Password", "must", "be", "at", "least", "8", "characters">>)
    ELSE None

\* The submit handler of the signup form (lines 107-167).  Auth.getAuthHeader
\* returns a string, which fetch refuses as a headers init (TypeError) before
\* any request is made; a throwing getAuthHeader ends in the same catch.
signup_submit(c, f) ==
    LET c1 == login_hideError(c)
    IN  IF IsSome(signup_validateForm(f))
        THEN login_showError(c1, Get(signup_validateForm(f)))
        ELSE login_hideLoading(login_showError(login_showLoading(c1), UnableToConnectMsg))

\* -------------------------------------------------------------------- inputs
Usernames == {"alice", "U+674E"}
Passwords == {"", "short", "Passw0rd!"}
Tokens == {"abc", "U+674E"}
Profiles == {None, Some([id |-> 7, username |-> "alice"])}
Texts == {<<"Please", "login">>, SessionExpiredMsg, FailedToFetch}
Statuses == {200, 401, 404}
\* A response body: whether response.json() parses it; when it does not, its
\* text (raw) and the message of the SyntaxError response.json() rejects with
\* (parseMsg); when it does, the fields the code reads.
\* A parsed body is an object with those fields, or the string prim.
NoBody == [json |-> FALSE, raw |-> <<>>, parseMsg |-> SyntaxErrorMsg, prim |-> None,
           message |-> None, error |-> None, token |-> None, user |-> None]
JsonBody == [NoBody EXCEPT !.json = TRUE]
\* The bodies of a non-success response: unparseable, or with a message
\* and/or an error field (either may be missing or empty).
ErrorBodies == {NoBody, JsonBody}
               \cup {[JsonBody EXCEPT !.message = Some(t)] : t \in Texts}
               \cup {[JsonBody EXCEPT !.message = m, !.error = Some(<<"Bad", "Request">>)] :
                         m \in {None, Some(<<>>), Some(<<"Please", "login">>)}}
\* The bodies of a POST /auth success response: unparseable, without a
\* token, or with one.
TokenBodies == {NoBody, JsonBody} \cup {[JsonBody EXCEPT !.token = Some(t)] : t \in Tokens}
               \cup {[JsonBody EXCEPT !.prim = Some(t)] : t \in {"", "abc"}}
\* The bodies of a success response that holds a user record.
UserBodies == {[JsonBody EXCEPT !.user = d] : d \in Profiles \ {None}}
\* The messages of the SyntaxError response.json() rejects with for a body
\* of the text raw: the engine's alone, or, in the engines that quote the
\* input, the engine's followed by the text.
jsonParseMessages(raw) == {SyntaxErrorMsg, SyntaxErrorMsg \o raw \o NotValidJson}
\* The bodies of a success response that are a text and no JSON.
TextBodies == LET t == FailedToFetch \o <<"upstream">>
              IN  {[NoBody EXCEPT !.raw = t, !.parseMsg = m] : m \in jsonParseMessages(t)}
Rejections == {[kind |-> "reject", msg |-> m, status |-> 0, body |-> NoBody] :
                   m \in {FailedToFetch,
                          <<"NetworkError", "when", "attempting", "to", "fetch", "resource.">>}}
Http(st, b) == [kind |-> "http", msg |-> <<>>, status |-> st, body |-> b]
\* What a fetch of API.request may settle with.
Responses == Rejections
             \cup {Http(200, b) : b \in {NoBody, JsonBody} \cup UserBodies \cup TextBodies}
             \cup {Http(st, b) : st \in Statuses \ {200}, b \in ErrorBodies}
\* What the fetch of the login form may settle with.
LoginResponses == Rejections
                  \cup {Http(200, b) : b \in TokenBodies}
                  \cup {Http(401, NoBody)}

\* The fetch r settles: it is no longer in flight.
Settled(c, r) == [c EXCEPT !.inflight = @ (-) SetToBag({r})]

\* ------------------------------------------------------------------- actions
NoLast == [op |-> "load", args |-> <<>>, effects |-> <<>>, outcome |-> None,
           status |-> 0, wasAuth |-> FALSE, alerted |-> None]

\* The tab opens index.html with an empty sessionStorage.
Boot ==
    /\ apiBuild \in {"guarded", "legacy"}
    /\ sessionStorage = EmptyStorage
    /\ page = "index.html"
    /\ handlers = TRUE
    /\ location = None
    /\ timers = {}
    /\ timeoutId = 0
    /\ nextTimerId = 1
    /\ inflight = EmptyBag
    /\ ui = [error |-> None, loading |-> FALSE]
    /\ last = NoLast

Init == Boot /\ apiBaseUrl = DefaultBaseUrl

\* The handler's context becomes the state.
Apply(c, l) ==
    /\ sessionStorage' = c.storage
    /\ location' = c.location
    /\ timers' = c.timers
    /\ timeoutId' = c.timeoutId
    /\ nextTimerId' = c.nextTimerId
    /\ inflight' = c.inflight
    /\ ui' = c.ui
    /\ handlers' = c.handlers
    /\ last' = [l EXCEPT !.effects = c.effects,
                         !.wasAuth = isAuthenticated(sessionStorage)]
    /\ UNCHANGED <<apiBuild, apiBaseUrl>>

\* The clock advances by one unit; an armed timer fires before the clock
\* moves past its due time.
Lower(n) == IF n > -1 THEN n - 1 ELSE n

Tick ==
    /\ \A t \in timers : t.left > 0
    /\ timers' = {[t EXCEPT !.left = @ - 1] : t \in timers}
    /\ sessionStorage' =
           IF IsSome(sessionStorage.token)
           THEN [sessionStorage EXCEPT !.token = Some([Get(@) EXCEPT !.exp = Lower(@)])]
           ELSE sessionStorage
    /\ last' = [NoLast EXCEPT !.op = "Tick"]
    /\ UNCHANGED <<apiBuild, apiBaseUrl, page, handlers, location,
                   timeoutId, nextTimerId, inflight, ui>>

LoadPage(p, op) ==
    /\ page' = p
    /\ Apply(DOMContentLoaded(p, FreshCtx), [NoLast EXCEPT !.op = op])

\* The user opens a page of the site (a link, the address bar, reload).
UserNavigate == \E p \in Pages : LoadPage(p, "DOMContentLoaded:" \o p)

\* A navigation asked for by a script is carried out.
NavigationComplete ==
    /\ IsSome(location)
    /\ LoadPage(Get(location), "DOMContentLoaded:" \o Get(location))

LoginSubmit ==
    /\ page = "index.html" /\ handlers /\ ~ui.loading
    /\ BagCardinality(inflight) < MaxInFlight
    /\ \E u \in {"", "alice"}, p \in Passwords :
           Apply(login_submit(Ctx, u, p), [NoLast EXCEPT !.op = "LoginSubmit"])
    /\ UNCHANGED page

\* The login form of the Basic Auth revision is submitted.
BasicLoginSubmit ==
    /\ page = "index.html" /\ handlers /\ ~ui.loading
    /\ BagCardinality(inflight) < MaxInFlight
    /\ \E u \in {""} \cup Usernames, p \in Passwords :
           Apply(login_basic_submit(Ctx, u, p), [NoLast EXCEPT !.op = "LoginSubmit"])
    /\ UNCHANGED page

LoginResponse ==
    /\ nextTimerId <= MaxTimerId
    /\ \E r \in BagToSet(inflight), resp \in LoginResponses :
           /\ r.via = "login"
           /\ Apply(login_resume(Settled(Ctx, r), resp),
                    [NoLast EXCEPT !.op = "LoginResponse", !.status = resp.status,
                                   !.args = IF resp.kind = "http" /\ resp.body.json
                                            THEN <<tokenOf(resp.body)>>
                                            ELSE <<>>])
    /\ UNCHANGED page

SignupSubmit ==
    /\ page = "signup.html" /\ handlers /\ ~ui.loading
    /\ \E fn \in {"", "Al"}, pw \in Passwords :
           Apply(signup_submit(Ctx, [firstName |-> fn, lastName |-> "Ice",
                                     username |-> "alice", password |-> pw]),
                 [NoLast EXCEPT !.op = "SignupSubmit"])
    /\ UNCHANGED page

\* The click handler of the logout button (dashboard.js lines 147-151).
LogoutClick ==
    /\ page = "dashboard.html" /\ handlers
    /\ \E confirm \in BOOLEAN :
           Apply(IF confirm THEN Auth_logout(Ctx) ELSE Ctx,
                 [NoLast EXCEPT !.op = "LogoutClick"])
    /\ UNCHANGED page

\* A script of the page calls the exported Auth.login.
Auth_login_call ==
    /\ nextTimerId <= MaxTimerId
    /\ \E u \in Usernames, d \in Profiles :
           LET r == Auth_login(Ctx, u, "Passw0rd!", d)
           IN  Apply(r.ctx, [NoLast EXCEPT !.op = "Auth.login",
                                           !.args = <<u, "Passw0rd!", d>>,
                                           !.outcome = Some(IF r.threw
                                                            THEN Throw("InvalidCharacterError",
                                                                       InvalidCharacterMsg)
                                                            ELSE Return)])
    /\ UNCHANGED page

\* A script of the page calls API.request through API.users / API.accounts.
API_request_call ==
    /\ BagCardinality(inflight) < MaxInFlight
    /\ LET r == API_request_send(Ctx, "direct", userEndpoint(7), NoHeaders, <<>>)
       IN  Apply(r.ctx, [NoLast EXCEPT !.op = "API.request",
                                       !.outcome = IF r.threw
                                                   THEN Some(Throw("InvalidCharacterError", r.msg))
                                                   ELSE None])
    /\ UNCHANGED page

\* The headers a caller may pass in options.headers.
CallerHeaders ==
    LET own == Some([scheme |-> "Basic", arg |-> <<"bob", ":", "secret">>, token |-> None])
    IN  {[NoHeaders EXCEPT !.Authorization = own],
         [NoHeaders EXCEPT !.ContentType = Some("text/plain")],
         [NoHeaders EXCEPT !.authorization = own],
         [NoHeaders EXCEPT !.contenttype = Some("text/plain")]}

\* A script of the page calls API.request with headers of its own.
API_request_call_headers ==
    /\ BagCardinality(inflight) < MaxInFlight
    /\ \E H \in CallerHeaders :
           LET r == API_request_send(Ctx, "direct", userEndpoint(7), H, <<>>)
           IN  Apply(r.ctx, [NoLast EXCEPT !.op = "API.request",
                                           !.args = <<H>>,
                                           !.outcome = IF r.threw
                                                       THEN Some(Throw("InvalidCharacterError", r.msg))
                                                       ELSE None])
    /\ UNCHANGED page

\* A fetch issued by API.request settles; the caller resumes.
ApiResponse ==
    /\ nextTimerId <= MaxTimerId
    /\ \E f \in BagToSet(inflight), resp \in Responses :
           /\ f.via = "API.request"
           /\ LET r == API_request_settle(Settled(Ctx, f), resp)
                  c == CASE f.caller = "dashboard" -> loadDashboard_resume(r.ctx, r.outcome)
                         [] f.caller = "login" ->
                                login_basic_resume(r.ctx, r.outcome, resp, f.closure)
                         [] OTHER -> r.ctx
              IN  Apply(c, [NoLast EXCEPT !.op = "ApiResponse", !.status = resp.status,
                                          !.outcome = Some(r.outcome)])
    /\ UNCHANGED page

\* The callback with logout() before alert().
expiryCallback_logoutFirst(c) ==
    LET c1 == Effect(Auth_logout(c), "alert")
    IN  [ctx |-> c1, alerted |-> Some(c1.storage)]

\* The callback of Auth.setSessionTimeout (auth.js lines 108-111).
expiryCallback(c) ==
    LET c1 == Effect(c, "alert")
    IN  [ctx |-> Auth_logout(c1), alerted |-> Some(c1.storage)]

ExpiryFire ==
    /\ \E t \in timers :
           /\ t.kind = "expiry" /\ t.left <= 0
           /\ LET r == expiryCallback([Ctx EXCEPT !.timers = @ \ {t}])
              IN  Apply(r.ctx, [NoLast EXCEPT !.op = "ExpiryFire", !.alerted = r.alerted])
    /\ UNCHANGED page

\* The callback loadDashboard's catch block schedules (dashboard.js lines 137-139).
DelayedLogoutFire ==
    /\ \E t \in timers :
           /\ t.kind = "delayedLogout" /\ t.left <= 0
           /\ Apply(Auth_logout([Ctx EXCEPT !.timers = @ \ {t}]),
                    [NoLast EXCEPT !.op = "DelayedLogoutFire"])
    /\ UNCHANGED page

Next ==
    \/ Tick
    \/ UserNavigate
    \/ NavigationComplete
    \/ LoginSubmit
    \/ LoginResponse
    \/ SignupSubmit
    \/ LogoutClick
    \/ Auth_login_call
    \/ API_request_call
    \/ ApiResponse
    \/ ExpiryFire
    \/ DelayedLogoutFire

Spec == Init /\ [][Next]_vars

\* The request gateway alone, under each base URL window.ENV_API_BASE_URL may
\* give (config.js line 8): a script logs in and calls API.users.getById.
BaseUrls == {DefaultBaseUrl, DefaultBaseUrl \o <<"/">>,
             <<"https:", "/", "/", "api.x">>, <<"https:", "/", "/", "api.x", "/">>}

UrlInit == Boot /\ apiBaseUrl \in BaseUrls

UrlNext ==
    \/ Tick
    \/ Auth_login_call
    \/ API_request_call
    \/ ApiResponse
    \/ ExpiryFire

UrlSpec == UrlInit /\ [][UrlNext]_vars

\* The request gateway alone, with callers that pass headers of their own.
GatewayNext ==
    \/ Tick
    \/ Auth_login_call
    \/ API_request_call
    \/ API_request_call_headers
    \/ ApiResponse
    \/ ExpiryFire

GatewaySpec == Init /\ [][GatewayNext]_vars

\* The site with the Basic Auth revision of login.js (part_001 lines 1-125).
BasicNext ==
    \/ Tick
    \/ UserNavigate
    \/ NavigationComplete
    \/ BasicLoginSubmit
    \/ SignupSubmit
    \/ LogoutClick
    \/ Auth_login_call
    \/ API_request_call
    \/ ApiResponse
    \/ ExpiryFire
    \/ DelayedLogoutFire

BasicSpec == Init /\ [][BasicNext]_vars

TypeOK ==
    /\ apiBuild \in {"guarded", "legacy"}
    /\ page \in Pages
    /\ BagCardinality(inflight) <= MaxInFlight

\* ===================================================================== claims
Range(f) == {f[i] : i \in DOMAIN f}
Did(e) == e \in Range(last.effects)
AuthExpired == Some(Throw("AuthExpired", SessionExpiredMsg))
ExpiryTimers == {t \in timers : t.kind = "expiry"}

\* C1: a 401 that API.request receives while isAuthenticated() is true always
\* leaves isAuthenticated() false and gives the caller the session-expired
\* error.
C1_UnauthorizedEndsSession ==
    [][(last'.op = "ApiResponse" /\ last'.status = 401 /\ isAuthenticated(sessionStorage))
         => (~isAuthenticated(sessionStorage') /\ last'.outcome = AuthExpired)]_vars

C1_Witness ==
    /\ last.op = "ApiResponse" /\ last.status = 401 /\ last.wasAuth
    /\ ~isAuthenticated(sessionStorage) /\ last.outcome = AuthExpired

\* C2: a 401 that API.request receives while no session is active gives an
\* HttpError, never the session-expired error, and triggers neither logout
\* nor navigation to the entry page.
C2_UnauthorizedWithoutSession ==
    [][(last'.op = "ApiResponse" /\ last'.status = 401 /\ ~isAuthenticated(sessionStorage))
         => /\ last'.outcome # AuthExpired
            /\ Get(last'.outcome).class = "HttpError"
            /\ "destroy" \notin Range(last'.effects)
            /\ "navigate:index.html" \notin Range(last'.effects)
            /\ location' = location]_vars

\* C3: right after Auth.login completes with a username and a password,
\* isAuthenticated() is true and the credential read back from the store has
\* that username and that password.
C3_CredentialReadBack ==
    (last.op = "Auth.login" /\ last.outcome = Some(Return))
        => /\ isAuthenticated(sessionStorage)
           /\ Prop(Get(getCredentials(sessionStorage)), "username") = last.args[1]
           /\ Prop(Get(getCredentials(sessionStorage)), "password") = last.args[2]

\* C4: Auth.logout is idempotent: from every reachable state, one call leaves
\* token, credentials and profile all absent, a second call leaves the same
\* store, timers and pending navigation as the first, and a call on a store
\* that is already empty does not change the store.
C4_LogoutIdempotent ==
    LET once == Auth_logout(Ctx)
        twice == Auth_logout(once)
    IN  /\ once.storage = EmptyStorage
        /\ twice.storage = once.storage
        /\ twice.timers = once.timers
        /\ twice.timeoutId = once.timeoutId
        /\ twice.location = once.location
        /\ sessionStorage = EmptyStorage => once.storage = sessionStorage
        /\ Did("destroy") => sessionStorage = EmptyStorage

C4_Witness == last.op = "LogoutClick" /\ Did("destroy") /\ ~last.wasAuth

\* C5: at most one expiry timer is armed, and it is the one Auth._timeoutId
\* names: a login made while an earlier timer is pending cancels that timer.
C5_OneExpiryTimer ==
    /\ Cardinality(ExpiryTimers) <= 1
    /\ \A t \in ExpiryTimers : t.id = timeoutId

C5_Witness ==
    /\ last.op = "Auth.login" /\ Did("cancel") /\ Did("create")
    /\ Cardinality(ExpiryTimers) = 1

\* C6: a session that neither logout nor a 401 has ended is destroyed once
\* the session timeout has elapsed: no session is active after the expiry
\* instant recorded at its creation.
C6_SessionEndsAtTimeout ==
    isAuthenticated(sessionStorage) => Get(getToken(sessionStorage)).exp >= 0

\* C7: when the expiry timer fires, the user is notified while the session
\* is as it was before the firing, then the session is destroyed, then the
\* navigation to the entry page is signalled; no step is skipped.
C7_ExpiryOrder ==
    [][last'.op = "ExpiryFire"
         => /\ last'.effects = <<"alert", "destroy", "navigate:index.html">>
            /\ last'.alerted = Some(sessionStorage)
            /\ sessionStorage' = EmptyStorage
            /\ location' = Some("index.html")]_vars

C7_Witness ==
    /\ last.op = "ExpiryFire" /\ last.wasAuth
    /\ ~isAuthenticated(sessionStorage) /\ location = Some("index.html")

\* C8: Auth.requireAuth signals the redirect to the entry page exactly when
\* isAuthenticated() is false at the call; with an active session it signals
\* no navigation and leaves the session store as it was.
C8_GuardDecision ==
    [][last'.op = "DOMContentLoaded:dashboard.html"
         => /\ ("guard:Redirect" \in Range(last'.effects)) <=> ~isAuthenticated(sessionStorage)
            /\ ("guard:Allow" \in Range(last'.effects)) <=> isAuthenticated(sessionStorage)
            /\ ~isAuthenticated(sessionStorage) => location' = Some("index.html")
            /\ isAuthenticated(sessionStorage)
                   => (location' = None /\ sessionStorage' = sessionStorage)]_vars

C8_Witness ==
    /\ last.op = "DOMContentLoaded:dashboard.html" /\ ~last.wasAuth
    /\ Did("guard:Redirect") /\ location = Some("index.html")

\* C9: when the guard decides Redirect during the dashboard bootstrap, nothing
\* of the bootstrap runs after the guard: loadDashboard is not entered, the
\* error and loading UI is untouched, no delayed logout is scheduled and no
\* backend call is issued.
C9_RedirectStopsBootstrap ==
    (last.op = "DOMContentLoaded:dashboard.html" /\ Did("guard:Redirect"))
        => /\ last.effects = <<"guard:Redirect">>
           /\ ui = [error |-> None, loading |-> FALSE]
           /\ timers = {}
           /\ inflight = EmptyBag

\* C10: when no session exists, no credential material can be read from the
\* store, and no request that was built without a session carries an
\* Authorization header.
C10_NoSessionNoCredential ==
    /\ ~isAuthenticated(sessionStorage)
           => (~IsSome(getCredentials(sessionStorage)) /\ ~IsSome(getToken(sessionStorage)))
    /\ \A r \in BagToSet(inflight) :
           ~r.authAtSend => ~IsSome(r.headers.Authorization)

\* The requests a step puts on the wire.
Issued == BagToSet(inflight' (-) inflight)

\* C11: every request API.request issues while a session is active carries
\* an Authorization header, and its value is the one Auth.getAuthHeader
\* derives from the credential stored at that moment (no caller here
\* supplies an Authorization header of its own).
C11_AuthorizedRequests ==
    [][\A r \in Issued :
           (r.via = "API.request" /\ isAuthenticated(sessionStorage') /\ r.authAtSend)
               => r.headers.Authorization = Some(Auth_getAuthHeader(sessionStorage').val)]_vars

\* C12: after the login page has created a session from the token t of the
\* backend's answer, the Authorization header is "Bearer " followed by t.
C12_BearerHeader ==
    (last.op = "LoginResponse" /\ Did("create"))
        => /\ Auth_getAuthHeader(sessionStorage).val.scheme = "Bearer"
           /\ Auth_getAuthHeader(sessionStorage).val.token = Some(last.args[1])

\* C13: after Auth.login(u, p, ...) has created a session, the Authorization
\* header is "Basic " followed by base64 of "u:p".
C13_BasicHeader ==
    (last.op = "Auth.login" /\ last.outcome = Some(Return))
        => Auth_getAuthHeader(sessionStorage).val =
               [scheme |-> "Basic", arg |-> btoa(<<last.args[1], ":", last.args[2]>>).val,
                token |-> None]

\* C15: whatever text a transport failure carries, API.request gives its
\* caller the fixed connection message, never the transport's own text.
C15_TransportFailureMessage ==
    [][(last'.op = "ApiResponse" /\ last'.status = 0)
         => last'.outcome = Some(Throw("NetworkError", UnableToConnectMsg))]_vars

\* The class of a settled exchange: what happened on the wire.
responseClass(S, resp) ==
    IF resp.kind = "reject" THEN "NetworkError"
    ELSE IF ~responseOk(resp.status)
         THEN IF treatsAsExpiry(S, resp) THEN "AuthExpired" ELSE "HttpError"
         ELSE IF resp.body.json THEN "Success" ELSE "ParseError"

\* What the caller of API.request can look at: a returned payload, or an
\* Error object, which has a message and nothing else.
Observable(o) == [tag |-> o.tag, msg |-> o.msg]

\* The class of the exchange the step has settled.
deliveredClass ==
    IF last'.status = 0 THEN "NetworkError"
    ELSE IF ~responseOk(last'.status)
         THEN IF treatsAsExpiry(sessionStorage, [status |-> last'.status])
              THEN "AuthExpired" ELSE "HttpError"
         ELSE IF Get(last'.outcome).tag = "return" THEN "Success" ELSE "ParseError"

\* C16: the outcome API.request delivers determines its class: no exchange
\* of another class would have given the caller, in the same state, the
\* outcome it has just been given.
C16_OutcomeDeterminesClass ==
    [][last'.op = "ApiResponse"
         => \A r \in Responses :
                responseClass(sessionStorage, r) # deliveredClass
                    => Observable(API_request_settle(Ctx, r).outcome)
                           # Observable(Get(last'.outcome))]_vars

\* C17: a call that ends in a NetworkError or an HttpError leaves the session
\* and the page as they were: the store is unchanged, no navigation is
\* signalled and no logout is scheduled, whatever the message says.
C17_ErrorsKeepSession ==
    [][(last'.op = "ApiResponse"
          /\ Get(last'.outcome).class \in {"NetworkError", "TypeError", "HttpError"})
         => /\ sessionStorage' = sessionStorage
            /\ location' = location
            /\ "setTimeout:logout" \notin Range(last'.effects)
            /\ \A t \in timers' : t.kind = "delayedLogout" => t \in timers]_vars

Count(seq, e) == Cardinality({i \in DOMAIN seq : seq[i] = e})

\* C18: an invocation of API.request issues exactly one fetch, and when the
\* fetch settles the caller gets exactly one outcome, a payload or an error,
\* without the request being issued again.
C18_OneExchangeOneOutcome ==
    /\ last.op = "API.request"
           => (Count(last.effects, "fetch") = 1 /\ last.outcome = None)
    /\ last.op = "ApiResponse"
           => /\ Count(last.effects, "fetch") = 0
              /\ IsSome(last.outcome)
              /\ Get(last.outcome).tag \in {"return", "throw"}

\* The base URL and the path joined by exactly one slash.
joined(base, path) ==
    IF base[Len(base)] = "/" THEN SubSeq(base, 1, Len(base) - 1) \o path ELSE base \o path

\* C14: the URL a call is issued to is the base URL joined with the path by
\* one slash (base "https://api.x/" and path "/users/7" give
\* "https://api.x/users/7"), whether or not the base ends in a slash.
C14_UrlJoin ==
    \A r \in BagToSet(inflight) :
        r.caller = "direct" => r.url = joined(apiBaseUrl, userEndpoint(7))

\* The requests a step takes off the wire.
Settling == BagToSet(inflight (-) inflight')

\* The request carries the text: in its body, in its URL or in its
\* Authorization header.
Carries(f, text) ==
    \/ text \in Range(f.body)
    \/ text \in Range(f.url)
    \/ (IsSome(f.headers.Authorization)
          /\ text \in Range(Get(f.headers.Authorization).arg))

\* C19: the login page creates a session only when an exchange that carried
\* the entered username and the entered password is answered with success;
\* a step of the page that does not create one leaves no session that was
\* not there before.
C19_SessionOnlyAfterVerifiedExchange ==
    [][last'.op \in {"LoginSubmit", "LoginResponse", "ApiResponse"}
         => IF "create" \in Range(last'.effects)
            THEN /\ responseOk(last'.status)
                 /\ \E f \in Settling :
                        /\ f.caller = "login"
                        /\ Carries(f, f.closure[1])
                        /\ Carries(f, f.closure[2])
            ELSE isAuthenticated(sessionStorage') => isAuthenticated(sessionStorage)]_vars

\* C20: when the login page has created a session and the dashboard is
\* loaded next, the session is active and the load schedules no logout.
C20_DashboardKeepsSession ==
    [][(last.op = "LoginResponse" /\ "create" \in Range(last.effects)
          /\ last'.op = "DOMContentLoaded:dashboard.html")
         => /\ isAuthenticated(sessionStorage')
            /\ "setTimeout:logout" \notin Range(last'.effects)
            /\ \A t \in timers' : t.kind # "delayedLogout"]_vars

\* The texts sessionStorage holds: the fields of the credentials, the
\* subject of the token and the username of the profile.
StoredTexts(S) ==
    (IF IsSome(S.creds) THEN {Get(S.creds)[k] : k \in DOMAIN Get(S.creds)} ELSE {})
        \cup (IF IsSome(S.token) THEN {Get(S.token).sub} ELSE {})
        \cup (IF IsSome(S.user) THEN {Get(S.user).username} ELSE {})

C22_AuthenticatedIffCredential ==
    /\ isAuthenticated(sessionStorage)
           <=> (IsSome(getCredentials(sessionStorage)) \/ IsSome(getToken(sessionStorage)))
    /\ IsSome(getToken(sessionStorage))
           => \A e \in -1..sessionTimeout :
                  isAuthenticated([sessionStorage EXCEPT
                                       !.token = Some([Get(@) EXCEPT !.exp = e])])
                      = isAuthenticated(sessionStorage)

\* C27: every request API.request builds carries Content-Type
\* application/json, with or without a session (no caller here supplies a
\* Content-Type of its own).
C27_ContentTypeJson ==
    \A r \in BagToSet(inflight) :
        r.via = "API.request" => r.headers.ContentType = Some("application/json")

\* The message the error of a non-success response is to have: the body's
\* message field, else its error field, else the generic text.
expectedMessage(resp) ==
    IF resp.body.json /\ IsSome(resp.body.message) /\ Get(resp.body.message) # <<>>
    THEN Get(resp.body.message)
    ELSE IF resp.body.json /\ IsSome(resp.body.error) /\ Get(resp.body.error) # <<>>
         THEN Get(resp.body.error)
         ELSE RequestFailedMsg(resp.status)

\* C28: when a non-success response is not taken for the end of the session,
\* the error the caller gets has the message of the body's message field,
\* else of its error field, else "Request failed with status <code>": it is
\* the message that rule gives for a response with that status.
C28_HttpErrorMessage ==
    [][(last'.op = "ApiResponse" /\ last'.status # 0 /\ ~responseOk(last'.status)
          /\ ~treatsAsExpiry(sessionStorage, [status |-> last'.status]))
         => \E resp \in Responses :
                /\ resp.kind = "http" /\ resp.status = last'.status
                /\ Get(last'.outcome).msg = expectedMessage(resp)]_vars

\* C29: when a response with a success status has a body that does not
\* parse, the caller of API.request gets the parse failure as an error: the
\* outcome of a success response is the data of a body that parses, or the
\* SyntaxError of one that does not, with the message response.json() gave;
\* it is no NetworkError, HttpError or AuthExpired.
C29_ParseFailurePropagates ==
    [][(last'.op = "ApiResponse" /\ responseOk(last'.status))
         => \E resp \in Responses :
                /\ resp.kind = "http" /\ resp.status = last'.status
                /\ Get(last'.outcome) = IF resp.body.json THEN Return
                                        ELSE Throw("SyntaxError", resp.body.parseMsg)]_vars

\* A body from which a token can be extracted: an object with a token field
\* that is not empty, or a string that is not empty.
hasToken(body) ==
    /\ body.json
    /\ \/ IsSome(body.prim) /\ Get(body.prim) # ""
       \/ ~IsSome(body.prim) /\ IsSome(body.token) /\ Get(body.token) # ""
theToken(body) == IF IsSome(body.prim) THEN Get(body.prim) ELSE Get(body.token)

\* C31: when the success response to POST /auth is not one whose body yields
\* a token (a token field or a token string) that the page then hands to
\* Auth.login, the page creates no session, leaves the store as it was,
\* shows the login-failed error and re-enables the form.
C31_SessionOnlyFromToken ==
    [][(last'.op = "LoginResponse" /\ responseOk(last'.status))
         => LET tokenResponse ==
                    \E resp \in LoginResponses :
                        /\ resp.kind = "http" /\ resp.status = last'.status
                        /\ hasToken(resp.body)
                        /\ last'.args = <<theToken(resp.body)>>
            IN  ~tokenResponse
                    => /\ "create" \notin Range(last'.effects)
                       /\ sessionStorage' = sessionStorage
                       /\ ui'.error = Some(LoginFailedMsg)
                       /\ ~ui'.loading]_vars

\* C32: when the login page (or the signup page) loads while a session is
\* active, it asks for the dashboard, installs no form handlers and leaves
\* the stored session as it is; and a page without form handlers starts no
\* credential exchange.
C32_ActiveSessionSkipsForm ==
    [][/\ (last'.op \in {"DOMContentLoaded:index.html", "DOMContentLoaded:signup.html"}
             /\ isAuthenticated(sessionStorage))
          => /\ location' = Some("dashboard.html")
             /\ ~handlers'
             /\ sessionStorage' = sessionStorage
             /\ "fetch" \notin Range(last'.effects)
       /\ (page \in {"index.html", "signup.html"} /\ ~handlers)
          => /\ last'.op \notin {"LoginSubmit", "SignupSubmit"}
             /\ \A r \in Issued : r.via = "API.request"]_vars

C32_Witness ==
    /\ last.op = "DOMContentLoaded:index.html"
    /\ isAuthenticated(sessionStorage)
    /\ location = Some("dashboard.html") /\ ~handlers

\* C33: a step that destroys the session (Auth.logout) leaves no expiry
\* timer armed, and the expiry callback never runs on a store that a logout
\* has already emptied.
C33_LogoutDisarmsExpiry ==
    [][/\ "destroy" \in Range(last'.effects)
          => {t \in timers' : t.kind = "expiry"} = {}
       /\ last'.op = "ExpiryFire" => sessionStorage # EmptyStorage]_vars

\* The request f did not carry the credentials of the session S: it was sent
\* while no session was active, or its Authorization header is not the one
\* S gives.
NotOfSession(f, S) ==
    \/ ~f.authAtSend
    \/ /\ IsSome(f.headers.Authorization)
       /\ Auth_getAuthHeader(S).ok
       /\ Get(f.headers.Authorization).scheme = Auth_getAuthHeader(S).val.scheme
       /\ Get(f.headers.Authorization).arg # Auth_getAuthHeader(S).val.arg

\* C34: a 401 that answers a call which did not carry the credentials of the
\* session current at its arrival leaves that session as it is and does not
\* give the session-expired error.
C34_UnauthorizedOnlyOwnSession ==
    [][(/\ last'.op = "ApiResponse" /\ last'.status = 401
        /\ isAuthenticated(sessionStorage)
        /\ \E f \in Settling : f.via = "API.request" /\ NotOfSession(f, sessionStorage))
         => /\ sessionStorage' = sessionStorage
            /\ last'.outcome # AuthExpired]_vars

\* C35: after every step the stored token and the stored credentials are
\* both present or both absent, and a call of Auth.login that throws leaves
\* the store as it was before the call.
C35_TokenAndCredentialsTogether ==
    [][/\ IsSome(getToken(sessionStorage')) = IsSome(getCredentials(sessionStorage'))
       /\ (last'.op = "Auth.login" /\ Get(last'.outcome).tag = "throw")
          => sessionStorage' = sessionStorage]_vars

\* C36: after a call of Auth.login that created a session, getUserData()
\* gives the profile that call was given, and nothing when it was given
\* none.
C36_ProfileOfLastLogin ==
    [][(last'.op = "Auth.login" /\ "create" \in Range(last'.effects))
         => getUserData(sessionStorage') = last'.args[3]]_vars

\* C37: the expiry callback never runs before the session timeout has
\* passed since the most recent login that created a session: when it runs,
\* the token that login stored has no time left.
C37_ExpiryNotEarly ==
    [][(last'.op = "ExpiryFire" /\ IsSome(getToken(sessionStorage)))
         => Get(getToken(sessionStorage)).exp <= 0]_vars

C37_Witness ==
    /\ last.op = "ExpiryFire" /\ last.wasAuth
    /\ page = "index.html" /\ timeoutId = 2
    /\ IsSome(last.alerted) /\ IsSome(getToken(Get(last.alerted)))
    /\ Get(getToken(Get(last.alerted))).exp <= 0

\* C23: when an authenticated call is in flight while the expiry timer
\* fires and the server answers the call with 401, then whichever of the two
\* is processed, and in whichever order, it leaves no active session and the
\* navigation to the entry page signalled.
C23_RaceEndsSession ==
    [][/\ (last'.op = "ApiResponse" /\ last'.status = 401
             /\ \E f \in Settling : f.via = "API.request" /\ f.authAtSend)
          => (~isAuthenticated(sessionStorage') /\ location' = Some("index.html"))
       /\ last'.op = "ExpiryFire"
          => (~isAuthenticated(sessionStorage') /\ location' = Some("index.html"))]_vars

C23_Witness ==
    /\ last.op = "ExpiryFire" /\ last.wasAuth
    /\ \E f \in BagToSet(inflight) : f.via = "API.request" /\ f.authAtSend
    /\ ~isAuthenticated(sessionStorage) /\ location = Some("index.html")

\* C25: a send by API.request, and a response other than a 401, leave the
\* token, the credentials, the profile and the armed expiry timer as they
\* were.
C25_RequestFrame ==
    [][(last'.op = "API.request" \/ (last'.op = "ApiResponse" /\ last'.status # 401))
         => /\ sessionStorage' = sessionStorage
            /\ {t \in timers' : t.kind = "expiry"} = ExpiryTimers
            /\ timeoutId' = timeoutId]_vars

C25_Witness ==
    /\ last.op = "ApiResponse" /\ last.status = 404 /\ last.wasAuth
    /\ isAuthenticated(sessionStorage) /\ IsSome(getUserData(sessionStorage))
    /\ ExpiryTimers # {}

\* The credential header a request carries: its Authorization header, or
\* the header value spread under the index keys.
CredentialHeader(r) ==
    IF IsSome(r.headers.Authorization) THEN r.headers.Authorization ELSE r.headers.Indexed

\* C24: in one API.request the isAuthenticated() check and the credential
\* read see the same store: a request that carries a credential header was
\* issued with a session active, and the header is built from the
\* credentials the store holds at that moment.
C24_CheckAndReadAtomic ==
    [][\A r \in Issued :
           r.via = "API.request"
               => /\ r.authAtSend = isAuthenticated(sessionStorage')
                  /\ IsSome(CredentialHeader(r))
                         => /\ isAuthenticated(sessionStorage')
                            /\ Get(CredentialHeader(r)).scheme = "Basic"
                            /\ Get(CredentialHeader(r)).arg[1]
                                   = Get(getCredentials(sessionStorage')).username]_vars

C24_Witness ==
    /\ last.op = "API.request" /\ Did("fetch") /\ last.wasAuth
    /\ \E r \in BagToSet(inflight) :
           /\ r.via = "API.request" /\ r.authAtSend /\ IsSome(CredentialHeader(r))
           /\ Get(CredentialHeader(r)).arg[1] = Get(getCredentials(sessionStorage)).username

\* The headers of the request a send puts on the wire.
SentHeaders(sent) == {r.headers : r \in BagToSet(sent.ctx.inflight (-) inflight)}

\* C30: the request API.request builds and the outcome it gives do not
\* depend on the cached profile: with the profile removed from the store the
\* same headers are sent and every response gives the same outcome.
C30_ProfileIndependent ==
    LET without == [Ctx EXCEPT !.storage.user = None]
        a == API_request_send(Ctx, "direct", userEndpoint(7), NoHeaders, <<>>)
        b == API_request_send(without, "direct", userEndpoint(7), NoHeaders, <<>>)
    IN  /\ a.threw = b.threw
        /\ a.msg = b.msg
        /\ SentHeaders(a) = SentHeaders(b)
        /\ \A resp \in Responses :
               API_request_settle(Ctx, resp).outcome
                   = API_request_settle(without, resp).outcome

C30_Witness ==
    /\ last.op = "API.request" /\ Did("fetch")
    /\ isAuthenticated(sessionStorage) /\ ~IsSome(getUserData(sessionStorage))
    /\ \E r \in BagToSet(inflight) : r.via = "API.request" /\ r.authAtSend

\* C26: the caller's headers are applied after the computed ones: a header
\* the caller names is sent with the caller's value alone, Authorization
\* included, and a header the caller does not name is sent as API.request
\* computes it.
C26_CallerHeadersLast ==
    [][(last'.op = "API.request" /\ last'.args # <<>>
          /\ "fetch" \in Range(last'.effects))
         => LET own == wireOf(last'.args[1])
                computed == SentHeaders(API_request_send(Ctx, "direct", userEndpoint(7),
                                                         NoHeaders, <<>>))
            IN  \A r \in Issued : \A n \in DOMAIN own :
                    /\ own[n] # <<>> => r.wire[n] = own[n]
                    /\ own[n] = <<>> => \E c \in computed : r.wire[n] = wireOf(c)[n]]_vars

====
